---- MODULE Spec2Model ----
(***************************************************************************)
(* The chat core of src/app.py: the password gate, the two data functions  *)
(* over the Google-Sheets ledger, the Gemini classifier call and the       *)
(* per-message script run that routes a chat message either to the pending *)
(* category logic or to the classifier.                                    *)
(*                                                                         *)
(* Text the code inspects (the chat input, the category) is a sequence of  *)
(* one-character strings, so that strip() and title() are computed.        *)
(* A JSON value is a record [type, n, s]; a dict is a record over Keys     *)
(* whose absent keys hold JAbsent.                                         *)
(***************************************************************************)
EXTENDS Integers, Sequences, FiniteSets, TLC

VARIABLES
    authenticated,  \* st.session_state.authenticated
    messages,       \* st.session_state.messages (the transcript)
    pending,        \* st.session_state.pending_expense
    ledger,         \* the rows of the Google sheet
    run,            \* what the most recent script run did (observation only)
    verdicts,       \* number of LOG_EXPENSE verdicts received so far (observation only)
    origin,         \* origin[i]: the verdict number row i of the sheet came from (observation only)
    sess            \* sess[s]: where session s stands inside its save_expense call

vars == <<authenticated, messages, pending, ledger, run, verdicts, origin, sess>>

\* Number of chat messages one explored session submits.
MaxTurns == 3

\* Number of save_expense calls each of the two concurrent sessions makes.
MaxSaves == 1

-----------------------------------------------------------------------------
(* Text                                                                    *)

Lowercase == <<"a","b","c","d","e","f","g","h","i","j","k","l","m",
               "n","o","p","q","r","s","t","u","v","w","x","y","z">>
Uppercase == <<"A","B","C","D","E","F","G","H","I","J","K","L","M",
               "N","O","P","Q","R","S","T","U","V","W","X","Y","Z">>

Whitespace == {" "}

IsLower(c) == \E i \in DOMAIN Lowercase : Lowercase[i] = c
IsUpper(c) == \E i \in DOMAIN Uppercase : Uppercase[i] = c
IsCased(c) == IsLower(c) \/ IsUpper(c)

Upper(c) == IF IsLower(c) THEN Uppercase[CHOOSE i \in DOMAIN Lowercase : Lowercase[i] = c] ELSE c
Lower(c) == IF IsUpper(c) THEN Lowercase[CHOOSE i \in DOMAIN Uppercase : Uppercase[i] = c] ELSE c

RECURSIVE LStrip(_)
LStrip(s) == IF s # <<>> /\ Head(s) \in Whitespace THEN LStrip(Tail(s)) ELSE s

RECURSIVE RStrip(_)
RStrip(s) == IF s # <<>> /\ s[Len(s)] \in Whitespace THEN RStrip(SubSeq(s, 1, Len(s) - 1)) ELSE s

\* str.strip()
Strip(s) == RStrip(LStrip(s))

\* The text is kept as typed.
Title_none(s) == s

\* str.title(): a cased character is upper-cased when the character before it
\* is not cased, lower-cased otherwise; other characters are kept.
RECURSIVE TitleFrom(_, _)
TitleFrom(s, prevCased) ==
    IF s = <<>> THEN <<>>
    ELSE LET c == Head(s)
         IN  <<IF prevCased THEN Lower(c) ELSE Upper(c)>> \o TitleFrom(Tail(s), IsCased(c))

Title(s) == TitleFrom(s, FALSE)

\* The texts typed into the chat box in the explored sessions.
TxtFood         == <<"F","o","o","d">>
TxtUtilityBills == <<" ","u","t","i","l","i","t","y"," ","b","i","l","l","s">>
TxtCab          == <<"c","a","b">>
UNCERTAIN       == <<"U","N","C","E","R","T","A","I","N">>

TxtQuery        == <<"Q","U","E","R","Y">>
TxtLogExpense   == <<"L","O","G","_","E","X","P","E","N","S","E">>
TxtError        == <<"E","R","R","O","R">>
TxtAuto         == <<"a","u","t","o">>
TxtToday        == <<"2","0","2","5","-","0","1","-","0","2">>
TxtAnswer       == <<"Y","o","u"," ","s","p","e","n","t"," ","2","0","0">>
TxtAbc          == <<"a","b","c">>

\* What the user types: an expense statement or question when nothing is
\* pending, an answer to the clarifying question when something is.
Utterances      == {TxtCab}
CategoryAnswers == {TxtFood, TxtUtilityBills, UNCERTAIN}

-----------------------------------------------------------------------------
(* JSON values and dicts                                                   *)

JAbsent == [type |-> "absent", n |-> 0, s |-> <<>>]
JNull   == [type |-> "null",   n |-> 0, s |-> <<>>]
JNum(k) == [type |-> "number", n |-> k, s |-> <<>>]
JStr(t) == [type |-> "string", n |-> 0, s |-> t]

Keys == {"intent", "response_text", "date", "item", "amount", "category", "notes"}

\* Python None in the pending slot; like the empty dict it is falsy.
NoneValue == [k \in Keys |-> JAbsent]

Has(d, k) == d[k] # JAbsent

\* dict.get(k)
Get(d, k) == IF Has(d, k) THEN d[k] ELSE JNull

\* bool(d) of a dict or None
Truthy(d) == \E k \in Keys : Has(d, k)

Missing(d, ks) == \E k \in ks : ~Has(d, k)

Digits == {"0","1","2","3","4","5","6","7","8","9"}

\* float(v) raises for None, for an empty or a non-numeric string.
FloatOk(v) ==
    \/ v.type = "number"
    \/ /\ v.type = "string"
       /\ Strip(v.s) # <<>>
       /\ \A i \in DOMAIN Strip(v.s) : Strip(v.s)[i] \in Digits

DigitValue(c) == CHOOSE k \in 0..9 : ToString(k) = c

RECURSIVE ParseDigits(_, _)
ParseDigits(s, acc) ==
    IF s = <<>> THEN acc ELSE ParseDigits(Tail(s), 10 * acc + DigitValue(Head(s)))

Float(v) == IF v.type = "number" THEN v.n ELSE ParseDigits(Strip(v.s), 0)

-----------------------------------------------------------------------------
(* 2. DATA FUNCTIONS                                                       *)

\* What can go wrong with the sheet during one save_expense call:
\*   "conn"   st.connection raises (line 142)
\*   "read"   conn.read raises inside get_data (line 129)
\*   "update" conn.update raises, the sheet is not written (line 149)
\*   "post"   st.toast or st.cache_data.clear raises after the write (150-151)
SaveFaults == {"none", "conn", "read", "update", "post"}

\* A failed read answers with the rows themselves.
get_data_stale(sheet, readOk) == sheet

\* get_data(): the sheet's rows, or an empty frame when the read raises.
get_data(sheet, readOk) == IF readOk THEN sheet ELSE <<>>

NewEntry(date, item, amount, category, notes) ==
    [Date |-> date, Item |-> item, Amount |-> Float(amount),
     Category |-> category, Notes |-> notes]

\* save_expense(): [ok |-> the value returned, written |-> whether conn.update
\* ran, rows |-> the sheet afterwards, kept |-> the number of old rows that
\* are in the frame written].
save_expense(sheet, date, item, amount, category, notes, fault) ==
    LET unchanged == [ok |-> FALSE, written |-> FALSE, rows |-> sheet, kept |-> Len(sheet)]
    IN  IF fault = "conn" THEN unchanged
        ELSE LET existing_data == get_data(sheet, fault # "read")
             IN  IF ~FloatOk(amount) THEN unchanged
                 ELSE LET updated_df ==
                              Append(existing_data, NewEntry(date, item, amount, category, notes))
                      IN  IF fault = "update" THEN unchanged
                          ELSE [ok |-> fault # "post", written |-> TRUE,
                                rows |-> updated_df, kept |-> Len(existing_data)]

-----------------------------------------------------------------------------
(* 3. AI LOGIC                                                             *)

Dict(intent, text, date, item, amount, category, notes) ==
    [intent |-> intent, response_text |-> text, date |-> date, item |-> item,
     amount |-> amount, category |-> category, notes |-> notes]

Expense(amount, category) ==
    Dict(JStr(TxtLogExpense), JAbsent, JStr(TxtToday), JStr(TxtAuto), amount,
         JStr(category), JStr(<<>>))

Without(d, k) == [d EXCEPT ![k] = JAbsent]

Query == Dict(JStr(TxtQuery), JStr(TxtAnswer), JAbsent, JAbsent, JAbsent, JAbsent, JAbsent)

\* A reply of model.generate_content: the call raises (transport), or it
\* returns text that is or is not JSON, with or without ```json fences.
TransportError == [transport |-> "error", fenced |-> FALSE, json |-> "invalid", obj |-> NoneValue]
Text(fenced, json, obj) == [transport |-> "ok", fenced |-> fenced, json |-> json, obj |-> obj]
NoReply == [transport |-> "none", fenced |-> FALSE, json |-> "invalid", obj |-> NoneValue]

ExpenseReplies ==
    {Text(FALSE, "object", Expense(JNum(200), TxtFood)),
     Text(FALSE, "object", Expense(JStr(TxtAbc), TxtFood)),
     Text(FALSE, "object", Expense(JNum(200), UNCERTAIN)),
     Text(FALSE, "object", Expense(JStr(TxtAbc), UNCERTAIN)),
     Text(FALSE, "object", Without(Expense(JNum(200), TxtFood), "date")),
     Text(FALSE, "object", Without(Expense(JNum(200), TxtFood), "amount")),
     Text(FALSE, "object", Without(Expense(JNum(200), TxtFood), "category")),
     Text(FALSE, "object", Without(Expense(JNum(200), UNCERTAIN), "date")),
     Text(FALSE, "object", Without(Expense(JNum(200), UNCERTAIN), "amount"))}

Replies ==
    {TransportError,
     Text(FALSE, "invalid", NoneValue),
     Text(FALSE, "array", NoneValue),
     Text(TRUE, "object", Query),
     Text(FALSE, "object", Without(Query, "intent"))} \cup ExpenseReplies

\* The fences are left in the text.
StripFences_kept(reply) == reply

\* .replace("```json", "").replace("```", "")
StripFences(reply) == [reply EXCEPT !.fenced = FALSE]

\* json.loads raises on text that is not JSON; fenced text is not JSON.
JsonLoadsOk(text) == ~text.fenced /\ text.json # "invalid"

\* json.loads outside the try: a parse error leaves the function.
analyze_intent_and_process_notry(reply) ==
    IF reply.transport = "error" \/ ~JsonLoadsOk(StripFences(reply))
    THEN [raised |-> TRUE, isdict |-> FALSE, value |-> NoneValue]
    ELSE [raised |-> FALSE, isdict |-> StripFences(reply).json = "object",
          value |-> StripFences(reply).obj]

\* analyze_intent_and_process(): raised when generate_content or .text raises
\* (outside the try), else the parsed value: a dict, or a JSON value that is
\* not an object.
analyze_intent_and_process(reply) ==
    IF reply.transport = "error"
    THEN [raised |-> TRUE, isdict |-> FALSE, value |-> NoneValue]
    ELSE LET text_response == StripFences(reply)
         IN  IF JsonLoadsOk(text_response)
             THEN [raised |-> FALSE, isdict |-> text_response.json = "object",
                   value |-> text_response.obj]
             ELSE [raised |-> FALSE, isdict |-> TRUE,
                   value |-> [NoneValue EXCEPT !.intent = JStr(TxtError),
                                               !.response_text = JStr(TxtError)]]

-----------------------------------------------------------------------------
(* 1. CONFIGURATION & AUTH                                                 *)

\* st.secrets["APP_PASSWORD"] and what is typed into the password box.
APP_PASSWORD == "secret"
Passwords    == {"secret", "guess"}

\* Any password that was typed is accepted.
PasswordOk_any(password) == password # ""

\* line 107
PasswordOk(password) == password = APP_PASSWORD

-----------------------------------------------------------------------------
(* 4. UI & STATE MANAGEMENT                                                *)

UserMsg(prompt)        == [role |-> "user", tmpl |-> "prompt", parts |-> <<JStr(prompt)>>]
Assistant(tmpl, parts) == [role |-> "assistant", tmpl |-> tmpl, parts |-> parts]

Greeting == Assistant("hello", <<>>)

\* A row that is in the sheet before the session starts.
OldRow == [Date |-> JStr(TxtToday), Item |-> JStr(TxtCab), Amount |-> 50,
           Category |-> JStr(TxtFood), Notes |-> JStr(<<>>)]

RECURSIVE SumAmount(_)
SumAmount(df) == IF df = <<>> THEN 0 ELSE Head(df).Amount + SumAmount(Tail(df))

\* lines 275-345: what the dashboard tab shows: the "Start chatting" notice
\* for an empty frame, else the metric cards with the total spent.
NotRendered == [kind |-> "none", total |-> 0]
Dashboard(sheet, readOk) ==
    LET df == get_data(sheet, readOk)
    IN  IF df = <<>> THEN [kind |-> "empty", total |-> 0]
        ELSE [kind |-> "metrics", total |-> SumAmount(df)]

ReadResult(readOk) == IF readOk THEN "ok" ELSE "failed"

UserTurns == Cardinality({i \in DOMAIN messages : messages[i].role = "user"})

\* One call of save_expense as the run made it: its arguments and its result.
Call(date, item, amount, category, notes, r) ==
    [date |-> date, item |-> item, amount |-> amount, category |-> category,
     notes |-> notes, ok |-> r.ok, written |-> r.written]

\* The record of a script run that handled a chat message.
Log(prompt, route, classifier, snapshot, reply, saves, raised) ==
    [op |-> "chat", prompt |-> prompt, messages0 |-> messages,
     pending0 |-> pending, ledger0 |-> ledger,
     route |-> route, classifier |-> classifier, snapshot |-> snapshot,
     reply |-> reply, saves |-> saves, raised |-> raised,
     password |-> "", snapshotRead |-> "none", dashRead |-> "none",
     dash |-> NotRendered]

NoLog(op) ==
    [op |-> op, prompt |-> <<>>, messages0 |-> messages,
     pending0 |-> pending, ledger0 |-> ledger,
     route |-> "none", classifier |-> FALSE, snapshot |-> <<>>,
     reply |-> NoReply, saves |-> <<>>, raised |-> "none",
     password |-> "", snapshotRead |-> "none", dashRead |-> "none",
     dash |-> NotRendered]

\* The state a run leaves behind.
Out(msgs, pend, rows, orig, nverdicts, log) ==
    [messages |-> msgs, pending |-> pend, rows |-> rows, origin |-> orig,
     verdicts |-> nverdicts, run |-> log]

\* The origin of each row after a save_expense call made for verdict v.
OriginAfter(r, v) ==
    IF r.written THEN Append(SubSeq(origin, 1, r.kept), v) ELSE origin

\* The pending slot is never consulted.
PendingBranch_never(p) == FALSE

\* The transcript decides: the last entry is the clarifying question.
PendingBranch_transcript(p) ==
    messages # <<>> /\ messages[Len(messages)].tmpl = "which_category"

\* line 225: if st.session_state.pending_expense
PendingBranch(p) == Truthy(p)

\* lines 226-238: the message is the category of the held expense.
ResolvePending(prompt, fault) ==
    LET category_input == Title(Strip(prompt))
        msgs == Append(messages, UserMsg(prompt))
    IN  IF Missing(pending, {"date", "item", "amount", "notes"})
        THEN \* pending['date'] ... raises KeyError at line 228
             Out(msgs, pending, ledger, origin, verdicts,
                 Log(prompt, "pending", FALSE, <<>>, NoReply, <<>>, "KeyError"))
        ELSE LET r == save_expense(ledger, pending.date, pending.item, pending.amount,
                                   JStr(category_input), pending.notes, fault)
                 response_msg == IF r.ok
                                 THEN Assistant("categorized_and_saved", <<JStr(category_input)>>)
                                 ELSE Assistant("went_wrong_saving", <<>>)
             IN  Out(Append(msgs, response_msg),
                     IF r.ok THEN NoneValue ELSE pending,
                     r.rows, OriginAfter(r, verdicts), verdicts,
                     Log(prompt, "pending", FALSE, <<>>, NoReply,
                         <<Call(pending.date, pending.item, pending.amount,
                                JStr(category_input), pending.notes, r)>>, "none"))

\* line 245
IsQuery(ai_result) == Get(ai_result, "intent") = JStr(TxtQuery)

\* line 251
IsLogExpense(ai_result) == Get(ai_result, "intent") = JStr(TxtLogExpense)

\* Any category at all is taken for the sentinel.
IsUncertain_any(data) == Has(data, "category")

\* line 253
IsUncertain(data) == Get(data, "category") = JStr(UNCERTAIN)

\* line 246
QueryResponse(ai_result) == Get(ai_result, "response_text")

\* The expense is held without its notes.
AskCategory_nonotes(prompt, msgs, snapshot, reply, data) ==
    Out(Append(msgs, Assistant("which_category", <<data.amount, data.item>>)),
        Without(data, "notes"), ledger, origin, verdicts + 1,
        Log(prompt, "uncertain", TRUE, snapshot, reply, <<>>, "none"))

\* lines 253-258: hold the expense and ask for its category.
AskCategory(prompt, msgs, snapshot, reply, data) ==
    IF Missing(data, {"amount", "item"})
    THEN \* the slot is assigned at line 254, the f-string raises at line 255
         Out(msgs, data, ledger, origin, verdicts + 1,
             Log(prompt, "uncertain", TRUE, snapshot, reply, <<>>, "KeyError"))
    ELSE Out(Append(msgs, Assistant("which_category", <<data.amount, data.item>>)),
             data, ledger, origin, verdicts + 1,
             Log(prompt, "uncertain", TRUE, snapshot, reply, <<>>, "none"))

\* lines 260-267: save the expense at once.
SaveNow(prompt, msgs, snapshot, reply, data, fault) ==
    IF Missing(data, {"date", "item", "amount", "category", "notes"})
    THEN \* data['date'] ... raises KeyError at line 260
         Out(msgs, pending, ledger, origin, verdicts + 1,
             Log(prompt, "save", TRUE, snapshot, reply, <<>>, "KeyError"))
    ELSE LET r == save_expense(ledger, data.date, data.item, data.amount,
                               data.category, data.notes, fault)
             response_msg == IF r.ok
                             THEN Assistant("saved", <<data.amount, data.item, data.category>>)
                             ELSE Assistant("failed_to_save", <<>>)
         IN  Out(Append(msgs, response_msg), pending, r.rows,
                 OriginAfter(r, verdicts + 1), verdicts + 1,
                 Log(prompt, "save", TRUE, snapshot, reply,
                     <<Call(data.date, data.item, data.amount, data.category, data.notes, r)>>,
                     "none"))

\* lines 241-272: ask the classifier and act on its verdict.
Classify(prompt, readOk, reply, fault) ==
    LET msgs == Append(messages, UserMsg(prompt))
        current_df == get_data(ledger, readOk)
        a == analyze_intent_and_process(reply)
        ai_result == a.value
    IN  IF a.raised
        THEN Out(msgs, pending, ledger, origin, verdicts,
                 Log(prompt, "none", TRUE, current_df, reply, <<>>, "ClassifierError"))
        ELSE IF ~a.isdict
        THEN \* ai_result.get on a list, a number or a string
             Out(msgs, pending, ledger, origin, verdicts,
                 Log(prompt, "none", TRUE, current_df, reply, <<>>, "AttributeError"))
        ELSE IF IsQuery(ai_result)
        THEN Out(Append(msgs, Assistant("verbatim", <<QueryResponse(ai_result)>>)),
                 pending, ledger, origin, verdicts,
                 Log(prompt, "query", TRUE, current_df, reply, <<>>, "none"))
        ELSE IF IsLogExpense(ai_result)
        THEN IF IsUncertain(ai_result)
             THEN AskCategory(prompt, msgs, current_df, reply, ai_result)
             ELSE SaveNow(prompt, msgs, current_df, reply, ai_result, fault)
        ELSE Out(Append(msgs, Assistant("did_not_understand", <<>>)),
                 pending, ledger, origin, verdicts,
                 Log(prompt, "unknown", TRUE, current_df, reply, <<>>, "none"))

\* lines 219-272: the script run for one submitted chat message.
ChatRun(prompt, readOk, reply, fault) ==
    IF PendingBranch(pending)
    THEN ResolvePending(prompt, fault)
    ELSE LET c == Classify(prompt, readOk, reply, fault)
         IN  [c EXCEPT !.run.snapshotRead = ReadResult(readOk)]

\* lines 274-276: the dashboard tab of the same script run; an exception in
\* the chat tab ends the run before it.
WithDashboard(log, sheet, dashOk) ==
    IF log.raised = "none"
    THEN [log EXCEPT !.dashRead = ReadResult(dashOk), !.dash = Dashboard(sheet, dashOk)]
    ELSE log

\* Two browser sessions that share the sheet; each has its own script runs.
Sessions == {"A", "B"}

\* A session that is not inside save_expense and has not called it yet.
Outside == [pc |-> "idle", existing |-> <<>>, readOk |-> TRUE, calls |-> 0,
            result |-> "none"]

-----------------------------------------------------------------------------
(* The session                                                             *)

Init ==
    /\ authenticated = FALSE
    /\ messages = <<>>
    /\ pending = NoneValue
    /\ ledger \in {<<>>, <<OldRow>>}
    /\ run = [op |-> "start", prompt |-> <<>>, messages0 |-> <<>>,
              pending0 |-> NoneValue, ledger0 |-> ledger,
              route |-> "none", classifier |-> FALSE, snapshot |-> <<>>,
              reply |-> NoReply, saves |-> <<>>, raised |-> "none",
              password |-> "", snapshotRead |-> "none", dashRead |-> "none",
              dash |-> NotRendered]
    /\ verdicts = 0
    /\ origin = [i \in DOMAIN ledger |-> 0]
    /\ sess = [s \in Sessions |-> Outside]

\* lines 97-112 and 201-204: the password gate; the first run past it
\* creates the transcript and the empty pending slot.
Login(password, dashOk) ==
    /\ ~authenticated
    /\ IF PasswordOk(password)
       THEN /\ authenticated' = TRUE
            /\ messages' = <<Greeting>>
            /\ pending' = NoneValue
            /\ run' = WithDashboard([NoLog("login") EXCEPT !.password = password],
                                    ledger, dashOk)
       ELSE /\ run' = [NoLog("login_refused") EXCEPT !.password = password]
            /\ UNCHANGED <<authenticated, messages, pending>>
    /\ UNCHANGED <<ledger, verdicts, origin, sess>>

\* line 219: a chat message is submitted.
Chat(prompt, readOk, reply, fault, dashOk) ==
    /\ authenticated
    /\ UserTurns < MaxTurns
    /\ prompt \in (IF Truthy(pending) THEN CategoryAnswers ELSE Utterances)
    /\ \E o \in {ChatRun(prompt, readOk, reply, fault)} :
           /\ messages' = o.messages
           /\ pending' = o.pending
           /\ ledger' = o.rows
           /\ origin' = o.origin
           /\ verdicts' = o.verdicts
           /\ run' = WithDashboard(o.run, o.rows, dashOk)
    /\ UNCHANGED <<authenticated, sess>>

\* The replies for which lines 259-260 are reached.
LeadsToSave(reply) ==
    LET a == analyze_intent_and_process(reply)
    IN  ~a.raised /\ a.isdict /\ IsLogExpense(a.value) /\ ~IsUncertain(a.value)

Next ==
    \/ \E password \in Passwords, dashOk \in BOOLEAN : Login(password, dashOk)
    \/ \E prompt \in Utterances, readOk \in BOOLEAN, reply \in Replies,
          fault \in SaveFaults, dashOk \in BOOLEAN :
            \* a fault of save_expense is drawn only where the reply leads to it
            /\ ~Truthy(pending)
            /\ IF fault = "none" THEN TRUE ELSE LeadsToSave(reply)
            /\ Chat(prompt, readOk, reply, fault, dashOk)
    \/ \E prompt \in CategoryAnswers, fault \in SaveFaults, dashOk \in BOOLEAN :
            \* the pending-category logic makes no snapshot read and no Classifier call
            Truthy(pending) /\ Chat(prompt, TRUE, NoReply, fault, dashOk)

Spec == Init /\ [][Next]_vars

-----------------------------------------------------------------------------
(* save_expense() in two sessions, one statement at a time                 *)

\* The record session s saves (the arguments of its save_expense calls).
SessionItem(s) == IF s = "A" THEN TxtAuto ELSE TxtAbc
SessionEntry(s) ==
    NewEntry(JStr(TxtToday), JStr(SessionItem(s)), JNum(200), JStr(TxtFood), JStr(<<>>))

\* The frame an atomic append would write: the sheet as it is at the update.
updated_df_current(s) == Append(ledger, SessionEntry(s))

\* lines 144-148: pd.concat of the frame read at line 143 and the new entry.
updated_df(s) == Append(sess[s].existing, SessionEntry(s))

Private == <<authenticated, messages, pending, run, verdicts, origin>>

\* line 260 or 228: the script run of session s calls save_expense.
CallSave(s) ==
    /\ sess[s].pc \in {"idle", "done"}
    /\ sess[s].calls < MaxSaves
    /\ sess' = [sess EXCEPT ![s] = [pc |-> "connect", existing |-> <<>>,
                                     readOk |-> TRUE, calls |-> @.calls + 1,
                                     result |-> "none"]]
    /\ UNCHANGED <<ledger, Private>>

\* line 142: st.connection; lines 153-155 when it raises.
Connect(s, ok) ==
    /\ sess[s].pc = "connect"
    /\ sess' = [sess EXCEPT ![s] = IF ok THEN [@ EXCEPT !.pc = "read"]
                                   ELSE [@ EXCEPT !.pc = "done", !.result = "False"]]
    /\ UNCHANGED <<ledger, Private>>

\* line 143: existing_data = get_data()
ReadExisting(s, ok) ==
    /\ sess[s].pc = "read"
    /\ sess' = [sess EXCEPT ![s] = [@ EXCEPT !.pc = "update", !.readOk = ok,
                                              !.existing = get_data(ledger, ok)]]
    /\ UNCHANGED <<ledger, Private>>

\* line 149: conn.update(data=updated_df); lines 153-155 when it raises.
Update(s, ok) ==
    /\ sess[s].pc = "update"
    /\ IF ok
       THEN /\ ledger' = updated_df(s)
            /\ sess' = [sess EXCEPT ![s] = [@ EXCEPT !.pc = "post"]]
       ELSE /\ sess' = [sess EXCEPT ![s] = [@ EXCEPT !.pc = "done", !.result = "False"]]
            /\ UNCHANGED ledger
    /\ UNCHANGED Private

\* lines 150-152: toast, cache clear, return True; lines 153-155 when one raises.
Finish(s, ok) ==
    /\ sess[s].pc = "post"
    /\ sess' = [sess EXCEPT ![s] = [@ EXCEPT !.pc = "done",
                                     !.result = IF ok THEN "True" ELSE "False"]]
    /\ UNCHANGED <<ledger, Private>>

\* Both sessions are past the password gate with an empty pending slot.
InitRace ==
    /\ authenticated = TRUE
    /\ messages = <<Greeting>>
    /\ pending = NoneValue
    /\ ledger \in {<<>>, <<OldRow>>}
    /\ run = NoLog("login")
    /\ verdicts = 0
    /\ origin = <<>>
    /\ sess = [s \in Sessions |-> Outside]

NextRace ==
    \E s \in Sessions :
        \/ CallSave(s)
        \/ \E ok \in BOOLEAN : Connect(s, ok)
        \/ \E ok \in BOOLEAN : ReadExisting(s, ok)
        \/ \E ok \in BOOLEAN : Update(s, ok)
        \/ \E ok \in BOOLEAN : Finish(s, ok)

SpecRace == InitRace /\ [][NextRace]_vars

-----------------------------------------------------------------------------
(* Properties                                                              *)

ChatDone    == run.op = "chat"
WasIdle     == ChatDone /\ ~Truthy(run.pending0)
WasAwaiting == ChatDone /\ Truthy(run.pending0)

ExpenseFields == {"date", "item", "amount", "category", "notes"}

\* The Classifier's verdict as section 6 of the specification defines it,
\* read off the reply itself.
ReplyObject(reply) == reply.transport = "ok" /\ reply.json = "object"
VerdictExpense(reply) ==
    /\ ReplyObject(reply)
    /\ reply.obj.intent = JStr(TxtLogExpense)
    /\ \A k \in ExpenseFields : Has(reply.obj, k)
VerdictIncompleteExpense(reply) ==
    /\ ReplyObject(reply)
    /\ reply.obj.intent = JStr(TxtLogExpense)
    /\ \E k \in ExpenseFields : ~Has(reply.obj, k)
VerdictQuery(reply) == ReplyObject(reply) /\ reply.obj.intent = JStr(TxtQuery)
ReplyNotJson(reply) == reply.transport = "ok" /\ reply.json = "invalid"

\* The run added the user's entry and then exactly one assistant entry.
AnsweredWith(m) == messages = run.messages0 \o <<UserMsg(run.prompt), m>>

SavedArgs(call, date, item, amount, category, notes) ==
    /\ call.date = date /\ call.item = item /\ call.amount = amount
    /\ call.category = category /\ call.notes = notes

\* C1 (as claimed): after a message processed while pending_expense is set,
\* pending_expense is cleared, whether the write of the held record
\* succeeded or failed.
C1_AwaitingTurnEndsIdle == (WasAwaiting /\ Len(run.saves) = 1) => ~Truthy(pending)

\* C2: in IDLE, an Expense verdict whose category is not the sentinel makes
\* exactly one save_expense call, with the extracted date, item, amount,
\* category and notes; the sheet gains that record or is unchanged; the
\* pending slot stays empty on success and on failure.
C2_ResolvableExpenseSavedOnce ==
    (WasIdle /\ VerdictExpense(run.reply) /\ run.reply.obj.category # JStr(UNCERTAIN)) =>
        LET data == run.reply.obj
        IN  /\ Len(run.saves) = 1
            /\ SavedArgs(run.saves[1], data.date, data.item, data.amount,
                         data.category, data.notes)
            /\ IF run.saves[1].written
               THEN /\ ledger # <<>>
                    /\ ledger[Len(ledger)] = NewEntry(data.date, data.item, data.amount,
                                                      data.category, data.notes)
               ELSE ledger = run.ledger0
            /\ ~Truthy(pending)

\* C2 witness: such a turn whose write was reported as failed.
C2_Witness ==
    /\ WasIdle /\ VerdictExpense(run.reply) /\ run.reply.obj.category # JStr(UNCERTAIN)
    /\ Len(run.saves) = 1 /\ ~run.saves[1].ok

\* C3: in IDLE, an Expense verdict with the sentinel category makes no
\* save_expense call, leaves the sheet as it was and fills the pending slot
\* with the verdict's date, item, amount and notes.
C3_UncertainExpenseHeld ==
    (WasIdle /\ VerdictExpense(run.reply) /\ run.reply.obj.category = JStr(UNCERTAIN)) =>
        LET data == run.reply.obj
        IN  /\ run.saves = <<>>
            /\ ledger = run.ledger0
            /\ Truthy(pending)
            /\ pending.date = data.date /\ pending.item = data.item
            /\ pending.amount = data.amount /\ pending.notes = data.notes

\* C3 witness: a sentinel verdict was received and the slot is now filled.
C3_Witness ==
    /\ WasIdle /\ VerdictExpense(run.reply) /\ run.reply.obj.category = JStr(UNCERTAIN)
    /\ Truthy(pending) /\ run.route = "uncertain"

\* C4: a Query verdict issues no write, leaves the sheet and the (empty)
\* pending slot as they were, and adds to the transcript the user's entry
\* followed by the answer text, verbatim.
C4_QueryChangesNothing ==
    (ChatDone /\ run.classifier /\ VerdictQuery(run.reply)) =>
        /\ run.saves = <<>>
        /\ ledger = run.ledger0
        /\ pending = run.pending0 /\ ~Truthy(pending)
        /\ AnsweredWith(Assistant("verbatim", <<Get(run.reply.obj, "response_text")>>))

\* C4 witness: a Query verdict was answered while the sheet holds a record.
C4_Witness ==
    /\ ChatDone /\ run.classifier /\ VerdictQuery(run.reply)
    /\ run.route = "query" /\ ledger # <<>>

\* C5: the Classifier is called in a run only if the pending slot was empty
\* when the run started; a run that starts with a pending clarification does
\* the pending-category logic and nothing else.
C5_PendingInterceptsTurn ==
    /\ (ChatDone /\ run.classifier) => ~Truthy(run.pending0)
    /\ WasAwaiting => (run.route = "pending" /\ run.reply = NoReply)

\* C5 witness: a message was processed while a clarification was pending.
C5_Witness == WasAwaiting /\ ~run.classifier /\ Len(run.saves) = 1

\* C6 (as claimed): every message processed while pending_expense is set
\* makes exactly one save_expense call, with the held date, item, amount and
\* notes and the message trimmed and title-cased as the category.
C6_AwaitingTurnSavesOnce ==
    WasAwaiting =>
        /\ Len(run.saves) = 1
        /\ SavedArgs(run.saves[1], run.pending0.date, run.pending0.item,
                     run.pending0.amount, JStr(Title(Strip(run.prompt))),
                     run.pending0.notes)

\* Where the held record has its four fields, the claim of C6 holds, and the
\* categories saved for the three answers are "Food", "Utility Bills" and
\* "Uncertain".
CompletePendingSavedOnce ==
    (WasAwaiting /\ ~Missing(run.pending0, {"date", "item", "amount", "notes"})) =>
        /\ Len(run.saves) = 1
        /\ SavedArgs(run.saves[1], run.pending0.date, run.pending0.item,
                     run.pending0.amount, run.saves[1].category, run.pending0.notes)
        /\ run.prompt = TxtFood => run.saves[1].category = JStr(TxtFood)
        /\ run.prompt = TxtUtilityBills =>
               run.saves[1].category =
                   JStr(<<"U","t","i","l","i","t","y"," ","B","i","l","l","s">>)
        /\ run.prompt = UNCERTAIN =>
               run.saves[1].category = JStr(<<"U","n","c","e","r","t","a","i","n">>)

\* C7: a reply whose text is not JSON is answered with the "didn't
\* understand" message: no exception, no save_expense call, the sheet and
\* the empty pending slot unchanged.
C7_UnparseableReply ==
    (WasIdle /\ ReplyNotJson(run.reply)) =>
        /\ run.raised = "none"
        /\ run.saves = <<>>
        /\ ledger = run.ledger0
        /\ ~Truthy(pending)
        /\ AnsweredWith(Assistant("did_not_understand", <<>>))

\* C7 witness: a reply that is not JSON was received and answered.
C7_Witness == WasIdle /\ ReplyNotJson(run.reply) /\ run.route = "unknown"

\* C8 (as claimed): an Expense reply that lacks one of its five fields is
\* answered with the "didn't understand" message: no exception, nothing
\* saved, nothing put in the pending slot.
C8_IncompleteExpenseIsUnparseable ==
    (WasIdle /\ VerdictIncompleteExpense(run.reply)) =>
        /\ run.raised = "none"
        /\ run.saves = <<>>
        /\ ~Truthy(pending)
        /\ AnsweredWith(Assistant("did_not_understand", <<>>))

\* C9 (as claimed): every run for a chat message ends without an exception,
\* having added the user's entry and then exactly one assistant entry. The
\* runs C8 is about (an Expense reply or a held record that lacks a field)
\* are set aside here.
C9_EveryTurnAnswered ==
    (ChatDone /\ run.raised # "KeyError") =>
        /\ run.raised = "none"
        /\ \E m \in {messages[Len(messages)]} : m.role = "assistant" /\ AnsweredWith(m)

\* C10 (as claimed): no two rows of the sheet come from the same Expense
\* verdict.
C10_AtMostOncePerVerdict ==
    \A i, j \in DOMAIN origin : (i # j /\ origin[i] > 0) => origin[i] # origin[j]

\* C11 (as claimed): a save_expense call that returns True leaves the sheet
\* equal to the rows that were there before followed by the new record.
C11_SuccessfulSaveAppends ==
    (ChatDone /\ Len(run.saves) = 1 /\ run.saves[1].ok) =>
        ledger = Append(run.ledger0,
                        NewEntry(run.saves[1].date, run.saves[1].item, run.saves[1].amount,
                                 run.saves[1].category, run.saves[1].notes))

\* The category list of the prompt (line 177) and "Uncategorized" (line 281).
CategoryEnum ==
    {<<"F","o","o","d">>,
     <<"G","r","o","c","e","r","i","e","s">>,
     <<"U","t","i","l","i","t","y"," ","B","i","l","l","s">>,
     <<"T","r","a","v","e","l">>,
     <<"S","h","o","p","p","i","n","g">>,
     <<"E","n","t","e","r","t","a","i","n","m","e","n","t">>,
     <<"H","e","a","l","t","h">>,
     <<"E","d","u","c","a","t","i","o","n">>,
     <<"O","t","h","e","r">>,
     <<"U","n","c","a","t","e","g","o","r","i","z","e","d">>}

\* C14 (as claimed): every row this program wrote has a category of the
\* closed enumeration or "Uncategorized".
C14_CategoryInEnum ==
    \A i \in DOMAIN ledger :
        origin[i] > 0 =>
            (ledger[i].Category.type = "string" /\ ledger[i].Category.s \in CategoryEnum)

IsPrefixOf(a, b) == Len(a) <= Len(b) /\ SubSeq(b, 1, Len(a)) = a

\* Which branch a run takes, as a function of the pending slot and the reply
\* alone.
RouteOf(slot, reply) ==
    IF Truthy(slot) THEN "pending"
    ELSE IF reply.transport # "ok" \/ reply.json = "array" THEN "none"
    ELSE IF reply.json = "invalid" THEN "unknown"
    ELSE IF reply.obj.intent = JStr(TxtQuery) THEN "query"
    ELSE IF reply.obj.intent = JStr(TxtLogExpense)
         THEN (IF reply.obj.category = JStr(UNCERTAIN) THEN "uncertain" ELSE "save")
    ELSE "unknown"

C15_RunShape ==
    ChatDone =>
        /\ IsPrefixOf(run.messages0 \o <<UserMsg(run.prompt)>>, messages)
        /\ Len(messages) <= Len(run.messages0) + 2
        /\ Len(messages) = Len(run.messages0) + 2 => messages[Len(messages)].role = "assistant"
        /\ run.route = RouteOf(run.pending0, run.reply)

\* C15: every step leaves the old transcript a prefix of the new one; a run
\* appends the user's entry first and at most one assistant entry after it;
\* the branch a run takes is determined by the pending slot and the
\* Classifier's reply, whatever the transcript holds.
C15_TranscriptAppendOnly ==
    [](C15_RunShape) /\ [][IsPrefixOf(messages, messages')]_vars

\* C15 witness: two runs with the same empty slot and different transcripts
\* behind them; the later one answered a question.
C15_Witness ==
    /\ ChatDone /\ run.route = "query" /\ Len(run.messages0) >= 3
    /\ Len(messages) = Len(run.messages0) + 2

\* C16 (as claimed): save_expense returns True exactly when it wrote the
\* record; when it returns False the sheet is as it was before the call.
C16_ReportedOutcomeMatchesStore ==
    (ChatDone /\ Len(run.saves) = 1) =>
        /\ run.saves[1].ok = run.saves[1].written
        /\ ~run.saves[1].ok => ledger = run.ledger0

\* C18: no row this program wrote has the category "UNCERTAIN", and the
\* pending slot, when set, holds a verdict whose category is "UNCERTAIN".
C18_SentinelNeverPersisted ==
    /\ \A i \in DOMAIN ledger : origin[i] > 0 => ledger[i].Category # JStr(UNCERTAIN)
    /\ Truthy(pending) => Get(pending, "category") = JStr(UNCERTAIN)

\* C18 witness: the text "UNCERTAIN" was given as the category of a held
\* expense and the record was written.
C18_Witness ==
    /\ WasAwaiting /\ run.prompt = UNCERTAIN
    /\ Len(run.saves) = 1 /\ run.saves[1].written

C17_Unauthenticated ==
    ~authenticated =>
        /\ messages = <<>> /\ pending = NoneValue
        /\ run.op \in {"start", "login_refused"}
        /\ ~run.classifier /\ run.saves = <<>>
        /\ run.snapshotRead = "none" /\ run.dashRead = "none"
        /\ ledger = run.ledger0

C17_Step ==
    /\ authenticated => authenticated'
    /\ (~authenticated /\ authenticated') =>
           (run'.op = "login" /\ run'.password = APP_PASSWORD)
    /\ ~authenticated' => (ledger' = ledger /\ messages' = messages /\ pending' = pending)

\* C17: while the session is not authenticated there is no transcript and no
\* pending slot, and no run reads or writes the sheet or calls the
\* Classifier; authenticated turns true only in a login run whose password
\* equals APP_PASSWORD, and never turns false again.
C17_AuthenticationGate == [](C17_Unauthenticated) /\ [][C17_Step]_vars

\* C17 witness: a wrong password was submitted and the session is still not
\* authenticated.
C17_Witness == ~authenticated /\ run.op = "login_refused" /\ run.password # APP_PASSWORD

\* C13: save_expense is not an atomic append. Whenever a session's update
\* goes through with a frame it read before another session's record reached
\* the sheet, that record is no longer in the sheet afterwards, although its
\* session was told (or will be told) the save succeeded; nothing in the
\* code holds the second update back.
Rows(df) == {df[i] : i \in DOMAIN df}
Updates(s) == sess[s].pc = "update" /\ sess'[s].pc = "post"
C13_StaleUpdateLosesRecord ==
    [][\A s \in Sessions, t \in Sessions :
          (/\ s # t
           /\ Updates(t)
           /\ SessionEntry(s) \in Rows(ledger)
           /\ SessionEntry(s) \notin Rows(sess[t].existing))
          => SessionEntry(s) \notin Rows(ledger')]_vars

\* Both sessions read the sheet without error and were told their save
\* succeeded, and the sheet holds only one of the two records.
C13_Witness ==
    /\ \A s \in Sessions :
          sess[s].pc = "done" /\ sess[s].result = "True" /\ sess[s].readOk
    /\ \E s \in Sessions : SessionEntry(s) \notin Rows(ledger)
    /\ \E s \in Sessions : SessionEntry(s) \in Rows(ledger)

====
